---- MODULE Spec2Model ----
(***************************************************************************)
(* The batch worker of ivcap_service: wait_for_work, fetch_job, do_job     *)
(* (ivcap_service/service.py) and verify_result, push_result               *)
(* (ivcap_service/ivcap.py), modelled as a state machine.                  *)
(*                                                                         *)
(* Python values are records with a `kind` field; Optional[str] values are *)
(* strings with the sentinel NoneStr for None.                             *)
(***************************************************************************)
EXTENDS Integers, Sequences, FiniteSets, TLC

\* Number of responses with status 2xx the sidecar hands out in one run.
MaxJobs == 2

\* service.py:46 and ivcap.py:22
MAX_REQUEST_JOB_ATTEMPTS == 4
MAX_DELIVER_RESULT_ATTEMPTS == 4

\* The statuses service.py passes to sys.exit (lines 76 and 113).
EXIT_DONE == 0
EXIT_NO_SIDECAR == 255

\* exit_code is <<>> while the process runs and <<status>> once it has exited.
NoExit == <<>>
Exited(status) == <<status>>

(***************************************************************************)
(* Python values                                                           *)
(***************************************************************************)
NoneStr == "<None>"
PyNone == [kind |-> "None"]
UNBOUND == "<unbound local>"
UNKNOWN_JOB_ID == "unknown_job_id"
BATCH_DONE_PREFIX == "urn:ivcap:schema.service.batch.done"
ERROR_SCHEMA == "urn:ivcap:schema.ai-tool.error.1"
TRACEBACK == "Traceback (most recent call last): ..."

\* An exception instance: its class and what str() of it yields.
Exc(cls, msg) == [kind |-> "exception", cls |-> cls, msg |-> msg]

\* sys.exit(code) raises SystemExit(code).
SysExit(code) ==
    [kind |-> "exception", cls |-> "SystemExit", msg |-> ToString(code), code |-> code]

\* Classes that derive from BaseException but not from Exception.
BaseOnlyClasses == {"SystemExit", "KeyboardInterrupt", "GeneratorExit"}
IsException(e) == e.cls \notin BaseOnlyClasses

\* types.py: ExecutionError(error, type, traceback=None), $schema fixed.
ExecutionError(error, type, tb) ==
    [kind |-> "ExecutionError", jschema |-> ERROR_SCHEMA,
     error |-> error, type |-> type, traceback |-> tb]

\* types.py: IvcapResult(content, content_type, isError=False, raw=None).
IvcapResult(content, content_type, raw) ==
    [kind |-> "IvcapResult", content |-> content, content_type |-> content_type,
     isError |-> FALSE, raw |-> raw]

\* The text produced by serialising value v with serialiser ser.
Serialised(ser, v) == [kind |-> "text", ser |-> ser, of |-> v]

(***************************************************************************)
(* JSON job envelopes                                                      *)
(***************************************************************************)
JStr(s) == [t |-> "string", v |-> s]
JNum(n) == [t |-> "number", v |-> ToString(n)]
JObj(tag) == [t |-> "object", v |-> tag]

\* A dict with the given <<key, value>> pairs.
MkDict(pairs) == [k \in {p[1] : p \in pairs} |-> (CHOOSE p \in pairs : p[1] = k)[2]]

\* dict.get(k, default)
Get(d, k, default) == IF k \in DOMAIN d THEN d[k] ELSE default

Absent == [t |-> "absent", v |-> ""]
SchemaValues == {Absent, JStr("urn:sd:schema:batch-tester.request.1"),
                 JStr("urn:ivcap:schema.service.batch.done.1"), JNum(5)}
IdValues == {Absent, JStr("42"), JStr("43")}
ContentTypeValues == {Absent, JStr("application/json"), JStr("text/plain")}
\* in-content: an object the input model accepts, or one it rejects.
ContentValues == {Absent, JObj("accepted"), JObj("rejected")}

Envelope(s, i, ct, c) ==
    MkDict({p \in {<<"$schema", s>>, <<"id", i>>, <<"in-content-type", ct>>,
                   <<"in-content", c>>} : p[2] # Absent})

\* Bodies of 2xx responses: text that is not JSON, JSON that is not an
\* object, and JSON objects.
NotJsonBody == [kind |-> "notjson"]
JsonListBody == [kind |-> "list"]
DictBody(d) == [kind |-> "dict", d |-> d]
NoBody == [kind |-> "nobody"]

DictBodies ==
    {DictBody(Envelope(s, i, ct, c)) :
        s \in SchemaValues, i \in IdValues, ct \in ContentTypeValues, c \in ContentValues}
Bodies == {NotJsonBody, JsonListBody} \cup DictBodies

AuthHeaders == {NoneStr, "Bearer tokA"}

\* What one httpx.get can produce: a transport error (no response), or a
\* response with a status.
GetErrors ==
    {[err |-> e, status |-> 0, body |-> NoBody, auth |-> NoneStr] :
        e \in {"ConnectError", "ReadTimeout"}}
GetNon2xx ==
    {[err |-> "", status |-> s, body |-> NoBody, auth |-> NoneStr] : s \in {301, 404, 503}}
Get2xx ==
    {[err |-> "", status |-> 200, body |-> b, auth |-> a] : b \in Bodies, a \in AuthHeaders}
NoGet == [err |-> "", status |-> 0, body |-> NoBody, auth |-> NoneStr]

\* httpx.get(url) followed by response.raise_for_status() raises.
GetRaises(g) == g.err # "" \/ g.status \notin 200..299

\* Mutant of StartsWith: the schema is compared for equality with the prefix.
StartsWithExact(s, prefix) == s = prefix

\* Python's str.startswith
StartsWith(s, prefix) ==
    /\ Len(s) >= Len(prefix)
    /\ SubSeq(s, 1, Len(prefix)) = prefix

(***************************************************************************)
(* Outcomes of a call: a returned value or a raised exception              *)
(***************************************************************************)
Returned(v) == [raised |-> FALSE, value |-> v, exc |-> PyNone]
Raised(e) == [raised |-> TRUE, value |-> PyNone, exc |-> e]

(***************************************************************************)
(* The worker function and its models (ServiceContext, service.py:48-56)   *)
(***************************************************************************)
\* A pydantic model instance of class cls; dumps: model_dump_json succeeds.
BaseModelValue(cls, dumps) == [kind |-> "BaseModel", cls |-> cls, dumps |-> dumps]
OUTPUT_MODEL == "Result"

\* types.py:23-29
BinaryResult(content_type, content) ==
    [kind |-> "BinaryResult", content_type |-> content_type, content |-> content]

ReturnValues ==
    {BaseModelValue(OUTPUT_MODEL, TRUE),
     BaseModelValue("Other", TRUE),
     BinaryResult("image/png", [kind |-> "bytes", v |-> "png"]),
     [kind |-> "str", v |-> "hello"],
     [kind |-> "dict", v |-> "y=2"]}

WorkerExceptions ==
    {Exc("RuntimeError", "boom"), SysExit(3), Exc("MemoryError", "")}

\* How the worker function behaves on a request: it returns a value or
\* raises an exception.
WorkerFns ==
    {[kind |-> "returns", value |-> v, exc |-> PyNone] : v \in ReturnValues}
    \cup {[kind |-> "raises", value |-> PyNone, exc |-> e] : e \in WorkerExceptions}

\* create_service_context: the name of the JobContext parameter, or None.
JobContextParams == {NoneStr, "ctxt"}

\* input_model(**jc): pydantic validation of the job content.
InputModel(jc) ==
    IF jc.t # "object"
    THEN Raised(Exc("TypeError", "argument after ** must be a mapping"))
    ELSE IF jc.v = "accepted"
         THEN Returned([kind |-> "BaseModel", cls |-> "Request", dumps |-> TRUE])
         ELSE Raised(Exc("ValidationError", "1 validation error for Request"))

\* events.py:72: __init__(self, job_id, job_authorization), no defaults.
EventReporterParams == {"job_id", "job_authorization"}

\* EventReporter(**kwargs): Python raises TypeError when a required
\* parameter is not supplied.
EventReporterInit(kwargs) ==
    IF EventReporterParams \subseteq DOMAIN kwargs
    THEN Returned([kind |-> "EventReporter", job_id |-> kwargs["job_id"],
                   job_authorization |-> kwargs["job_authorization"]])
    ELSE Raised(Exc("TypeError",
            "EventReporter.__init__() missing 1 required positional argument: 'job_authorization'"))

\* types.py:16-21
JobContext(job_id, job_authorization, report) ==
    [kind |-> "JobContext", job_id |-> job_id,
     job_authorization |-> job_authorization, report |-> report]

\* f(mreq) or f(mreq, **d)
CallWorker(fn, mreq, kwargs) ==
    IF fn.kind = "raises" THEN Raised(fn.exc) ELSE Returned(fn.value)

NoCall == [kind |-> "nocall"]

\* The outcome of do_job together with its side effects: how often the
\* worker function was invoked, with what, and svc_ctxt.job_context.
DoJobResult(out, calls, calledWith, job_context) ==
    [kind |-> "do_job", raised |-> out.raised, value |-> out.value, exc |-> out.exc,
     calls |-> calls, calledWith |-> calledWith, job_context |-> job_context]

\* service.py:115-148
do_job(job, svc, job_authorization) ==
    LET job_id == Get(job, "id", JStr(UNKNOWN_JOB_ID)).v
        old == svc.job_context
    IN
    IF "in-content-type" \notin DOMAIN job
    THEN DoJobResult(Raised(Exc("KeyError", "'in-content-type'")), 0, NoCall, old)
    ELSE IF job["in-content-type"] # JStr("application/json")
    THEN DoJobResult(Raised(Exc("Exception",
            "cannot handle content-type '" \o job["in-content-type"].v \o "'")), 0, NoCall, old)
    ELSE IF "in-content" \notin DOMAIN job
    THEN DoJobResult(Raised(Exc("KeyError", "'in-content'")), 0, NoCall, old)
    ELSE
    LET mreq == InputModel(job["in-content"]) IN
    IF mreq.raised
    THEN DoJobResult(mreq, 0, NoCall, old)
    ELSE
    LET report == EventReporterInit([job_id |-> job_id]) IN
    IF report.raised
    THEN DoJobResult(report, 0, NoCall, old)
    ELSE
    LET jc == JobContext(job_id, job_authorization, report.value)
        kwargs == IF svc.fn_add_job_context = NoneStr
                  THEN <<>>
                  ELSE (svc.fn_add_job_context :> jc)
        resp == CallWorker(svc.worker_fn, mreq.value, kwargs)
        calledWith == [kind |-> "call", request |-> mreq.value, kwargs |-> kwargs]
    IN
    IF resp.raised
    THEN DoJobResult(Returned(ExecutionError(resp.exc.msg, resp.exc.cls, TRACEBACK)),
                     1, calledWith, jc)
    ELSE DoJobResult(Returned(resp.value), 1, calledWith, jc)

(***************************************************************************)
(* ivcap.py: verify_result                                                 *)
(***************************************************************************)
\* typing.BinaryIO has no registered subclasses: only instances of classes
\* that derive from it pass isinstance(result, BinaryIO).
IsBinaryIO(v) == v.kind = "BinaryIOSubclass"

\* json.dumps succeeds on dict, list, number, str, None.
JsonDumpsAccepts(v) == v.kind \in {"dict", "list", "number", "None"}

\* ivcap.py:61-73: the value the fallback arm assigns to its local `result`.
FallbackAssigned(v, job_id) ==
    IF JsonDumpsAccepts(v)
    THEN IvcapResult(Serialised("json.dumps", v), "application/json", PyNone)
    ELSE ExecutionError(job_id \o ": cannot json serialise result - not JSON serializable",
                        "TypeError", NoneStr)

\* Mutant of verify_result: a str is delivered as application/octet-stream.
verify_result_StrAsBytes(v, job_id) ==
    IF v.kind = "ExecutionError" THEN v
    ELSE IF v.kind = "BaseModel"
    THEN IF v.dumps
         THEN IvcapResult(Serialised("model_dump_json", v), "application/json", v)
         ELSE ExecutionError(
                 job_id \o ": cannot json serialise pydantic isntance - serialisation failed",
                 "PydanticSerializationError", TRACEBACK)
    ELSE IF v.kind \in {"BinaryResult", "IvcapResult"}
    THEN IvcapResult(v.content, v.content_type, PyNone)
    ELSE IF v.kind \in {"str", "bytes"} THEN IvcapResult(v, "application/octet-stream", v)
    ELSE IF IsBinaryIO(v) THEN IvcapResult(v, "application/octet-stream", v)
    ELSE LET result == FallbackAssigned(v, job_id) IN PyNone

\* Mutant of verify_result: a Failure is rebuilt from its error and type,
\* which loses its traceback.
verify_result_RebuildsFailure(v, job_id) ==
    IF v.kind = "ExecutionError" THEN ExecutionError(v.error, v.type, NoneStr)
    ELSE IF v.kind = "BaseModel"
    THEN IF v.dumps
         THEN IvcapResult(Serialised("model_dump_json", v), "application/json", v)
         ELSE ExecutionError(
                 job_id \o ": cannot json serialise pydantic isntance - serialisation failed",
                 "PydanticSerializationError", TRACEBACK)
    ELSE IF v.kind \in {"BinaryResult", "IvcapResult"}
    THEN IvcapResult(v.content, v.content_type, PyNone)
    ELSE IF v.kind = "str" THEN IvcapResult(v, "text/plain", v)
    ELSE IF v.kind = "bytes" THEN IvcapResult(v, "application/octet-stream", v)
    ELSE IF IsBinaryIO(v) THEN IvcapResult(v, "application/octet-stream", v)
    ELSE LET result == FallbackAssigned(v, job_id) IN PyNone

\* ivcap.py:25-73.  The fallback arm assigns its local and the function
\* ends without a return statement, so the call evaluates to None.
verify_result(v, job_id) ==
    IF v.kind = "ExecutionError" THEN v
    ELSE IF v.kind = "BaseModel"
    THEN IF v.dumps
         THEN IvcapResult(Serialised("model_dump_json", v), "application/json", v)
         ELSE ExecutionError(
                 job_id \o ": cannot json serialise pydantic isntance - serialisation failed",
                 "PydanticSerializationError", TRACEBACK)
    ELSE IF v.kind \in {"BinaryResult", "IvcapResult"}
    THEN IvcapResult(v.content, v.content_type, PyNone)
    ELSE IF v.kind = "str" THEN IvcapResult(v, "text/plain", v)
    ELSE IF v.kind = "bytes" THEN IvcapResult(v, "application/octet-stream", v)
    ELSE IF IsBinaryIO(v) THEN IvcapResult(v, "application/octet-stream", v)
    ELSE LET result == FallbackAssigned(v, job_id) IN PyNone

(***************************************************************************)
(* ivcap.py: push_result, lines 83-117 (the request it builds)             *)
(***************************************************************************)
\* str(bool)
StrBool(b) == IF b THEN "True" ELSE "False"

\* ivcap.py:86-92
PushCoerced(result, job_id) ==
    IF result.kind \notin {"ExecutionError", "IvcapResult"}
    THEN ExecutionError(job_id \o ": expected 'IvcapResult' or 'ExecutionError' but got "
                            \o result.kind, "InternalError", NoneStr)
    ELSE result

\* Mutant of PushIsError: is_error keeps its initial value False.
PushIsErrorNever(result) == FALSE

\* ivcap.py:85, 94-98
PushIsError(result) == result.kind # "IvcapResult"

\* ivcap.py:95-96, 106-107
PushContentType(result) ==
    IF result.kind = "IvcapResult" THEN result.content_type ELSE "application/json"

PushContent(result) ==
    IF result.kind = "IvcapResult" THEN result.content
    ELSE Serialised("model_dump_json", result)

\* ivcap.py:112-117
PushHeaders(content_type, is_error, authorization) ==
    LET headers == ("Content-Type" :> content_type) @@ ("Is-Error" :> StrBool(is_error)) IN
    IF ~(authorization = NoneStr \/ authorization = "")
    THEN ("Authorization" :> authorization) @@ headers
    ELSE headers

\* ivcap.py:81-117: the POST request push_result sends on every attempt.
PushRequest(result, job_id, authorization) ==
    LET r == PushCoerced(result, job_id) IN
    [url |-> "/results/" \o job_id,
     headers |-> PushHeaders(PushContentType(r), PushIsError(r), authorization),
     data |-> PushContent(r),
     sent |-> r]

(***************************************************************************)
(* State                                                                   *)
(***************************************************************************)
VARIABLES
    pc,                 \* where the process is
    entry,              \* the function the run entered: start_batch_service or push_result
    args,               \* start_batch_service: the parsed command line
    worker,             \* start_batch_service: worker_fn and its extra parameters
    v_in,               \* verify_result: the value first passed as `result`
    v_job_id,           \* verify_result: its job_id argument
    v_out,              \* verify_result: what the latest call returned
    v_calls,            \* verify_result: calls made, each on the previous return value
    reporter,           \* EventReporter: the emit calls of a running worker
    step_scope,         \* EventReporter.step: one `with reporter.step(...)` statement
    data_proxy,         \* legacy SDK: one call of wait_for_data_proxy
    argument,           \* legacy SDK: one Parameter and what Arguments.build made of it
    exit_code,          \* NoExit, or Exited(status) after sys.exit(status)
    base_url,           \* os.getenv("IVCAP_BASE_URL")
    svc_ctxt,           \* ServiceContext: worker_fn, fn_add_job_context, job_context
    fetched,            \* 2xx responses the sidecar has handed out
    attempt, wait_time, \* fetch_job locals
    slept,              \* time.sleep calls of the current fetch_job call
    gets,               \* httpx.get calls of the current fetch_job call
    lastGet,            \* what the last httpx.get produced
    response,           \* wait_for_work: response returned by fetch_job
    job_authorization,  \* wait_for_work: second element of fetch_job's tuple
    job_id,             \* wait_for_work local, UNBOUND until first assigned
    result,             \* wait_for_work local
    dj,                 \* the do_job call of the current iteration
    pushCalls,          \* push_result calls of the current iteration
    push_args,          \* push_result: result, job_id, authorization
    request,            \* push_result: the POST request it sends
    p_attempt, p_wait_time, \* push_result locals
    p_slept,            \* sleep calls of the current push_result call
    posts,              \* httpx.post calls of the current push_result call
    lastPost            \* status of the last POST response, 0 for a transport error

vars == <<pc, entry, args, worker, v_in, v_job_id, v_out, v_calls, reporter, step_scope, data_proxy, argument, exit_code, base_url, svc_ctxt, fetched, attempt, wait_time,
          slept, gets, lastGet, response, job_authorization, job_id, result, dj,
          pushCalls, push_args, request, p_attempt, p_wait_time, p_slept, posts,
          lastPost>>

fetchVars == <<attempt, wait_time, slept, gets, lastGet>>
loopVars == <<response, job_authorization, job_id, result, dj, pushCalls>>
pushVars == <<push_args, request, p_attempt, p_wait_time, p_slept, posts, lastPost>>
envVars == <<entry, base_url, args, worker>>
verifyVars == <<v_in, v_job_id, v_out, v_calls>>
legacyVars == <<data_proxy, argument>>

NotRun == [DoJobResult(Returned(PyNone), 0, NoCall, PyNone) EXCEPT !.kind = "notrun"]
NoArgs == [result |-> PyNone, job_id |-> NoneStr, authorization |-> NoneStr]
NoRequest == [url |-> "", headers |-> <<>>, data |-> PyNone, sent |-> PyNone]

BaseUrls == {NoneStr, "", "http://ivcap.local"}

\* Mutant of get_ivcap_url: an empty IVCAP_BASE_URL counts as a URL.
get_ivcap_url_NoneOnly(base) == IF base = NoneStr THEN NoneStr ELSE base

\* ivcap.py:137-144: None when the variable is unset or empty.
get_ivcap_url(base) == IF base = "" \/ base = NoneStr THEN NoneStr ELSE base

ServiceContexts ==
    {[worker_fn |-> f, fn_add_job_context |-> p, job_context |-> PyNone] :
        f \in WorkerFns, p \in JobContextParams}

(***************************************************************************)
(* events.py: EventReporter                                                *)
(***************************************************************************)
\* events.py:88-134: each emit method with the event class and the
\* EventType it passes to _emit.
EmitMethods ==
    {[method |-> "text_message_start", cls |-> "TextMessageStartEvent", event_type |-> "TEXT_MESSAGE_START"],
     [method |-> "text_message_content", cls |-> "TextMessageContentEvent", event_type |-> "TEXT_MESSAGE_CONTENT"],
     [method |-> "text_message_end", cls |-> "TextMessageEndEvent", event_type |-> "TEXT_MESSAGE_END"],
     [method |-> "tool_call_start", cls |-> "ToolCallStartEvent", event_type |-> "TOOL_CALL_START"],
     [method |-> "tool_call_args", cls |-> "ToolCallArgsEvent", event_type |-> "TOOL_CALL_ARGS"],
     [method |-> "tool_call_end", cls |-> "ToolCallEndEvent", event_type |-> "TOOL_CALL_END"],
     [method |-> "state_snapshot", cls |-> "StateSnapshotEvent", event_type |-> "STATE_SNAPSHOT"],
     [method |-> "state_delta", cls |-> "StateDeltaEvent", event_type |-> "STATE_DELTA"],
     [method |-> "messages_snapshot", cls |-> "MessagesSnapshotEvent", event_type |-> "MESSAGES_SNAPSHOT"],
     [method |-> "raw", cls |-> "RawEvent", event_type |-> "RAW"],
     [method |-> "custom", cls |-> "CustomEvent", event_type |-> "CUSTOM"],
     [method |-> "run_started", cls |-> "RunStartedEvent", event_type |-> "RUN_STARTED"],
     [method |-> "run_finished", cls |-> "RunFinishedEvent", event_type |-> "RUN_FINISHED"],
     [method |-> "run_error", cls |-> "RunErrorEvent", event_type |-> "RUN_ERROR"],
     [method |-> "step_started", cls |-> "StepStartedEvent", event_type |-> "STEP_STARTED"],
     [method |-> "step_finished", cls |-> "StepFinishedEvent", event_type |-> "STEP_FINISHED"]}

\* What cls(type=event_type, **kwargs) does: the event, or a validation error.
BuildOutcomes == {Returned(PyNone), Raised(Exc("ValidationError", "1 validation error"))}

\* What self._send(event) does, in EventReporter or a subclass of it.
SendOutcomes ==
    {Returned(PyNone),
     Raised(Exc("ConnectionError", "sink down")),
     Raised(Exc("KeyboardInterrupt", ""))}

\* The timestamp argument of an emit method; None by default.
Timestamps == {NoneStr, "1700000000000"}

\* int(time.time() * 1000)
NOW_MS == "now"

Event(m, ts) ==
    [kind |-> "event", cls |-> m.cls, type |-> m.event_type,
     timestamp |-> IF ts = NoneStr THEN NOW_MS ELSE ts]

NoEvent == [kind |-> "noevent"]
NoLog == NoneStr

\* How a call ended, the event that reached the sink and the error logged.
EmitResult(out, sent, logged) ==
    [kind |-> "emit", raised |-> out.raised, exc |-> out.exc, sent |-> sent,
     logged |-> logged]

\* Mutant of EventReporter_emit: no try/except around building and sending.
EventReporter_emit_NoCatch(m, build, send, ts) ==
    IF build.raised THEN EmitResult(Raised(build.exc), NoEvent, NoLog)
    ELSE IF send.raised THEN EmitResult(Raised(send.exc), NoEvent, NoLog)
    ELSE EmitResult(Returned(PyNone), Event(m, ts), NoLog)

\* events.py:79-86 (_emit), reached from every emit method (88-134): the
\* event is built, stamped and sent inside a try whose handler catches
\* Exception and logs it.
EventReporter_emit(m, build, send, ts) ==
    IF build.raised
    THEN IF IsException(build.exc)
         THEN EmitResult(Returned(PyNone), NoEvent,
                         "Failed to emit event " \o m.event_type \o ": " \o build.exc.msg)
         ELSE EmitResult(Raised(build.exc), NoEvent, NoLog)
    ELSE IF send.raised
    THEN IF IsException(send.exc)
         THEN EmitResult(Returned(PyNone), NoEvent,
                         "Failed to emit event " \o m.event_type \o ": " \o send.exc.msg)
         ELSE EmitResult(Raised(send.exc), NoEvent, NoLog)
    ELSE EmitResult(Returned(PyNone), Event(m, ts), NoLog)

NoEmit == [kind |-> "nocall"]
NoReporter == [calls |-> 0, sent |-> 0, errors |-> 0, call |-> NoEmit, last |-> NoEmit]

\* No with statement, no wait_for_data_proxy call, no Parameter.
NoScope == [kind |-> "noscope"]
NoProxy == [kind |-> "noproxy"]
NoArgument == [kind |-> "noargument"]

\* The ServiceContext does not exist before create_service_context.
NoContext == [worker_fn |-> PyNone, fn_add_job_context |-> NoneStr, job_context |-> PyNone]

\* utils.py:36-41: the parameters of the worker function other than its
\* request model, each with its type hint (Any when it has none).
ExtraParams ==
    {<<>>,
     ("ctxt" :> "JobContext"),
     ("ctxt" :> "str"),
     ("verbose" :> "Any"),
     ("ctxt" :> "JobContext") @@ ("retries" :> "int")}

Workers == {[fn |-> f, extras |-> e] : f \in WorkerFns, e \in ExtraParams}

\* service.py:212, 218
EXIT_BAD_WORKER == 1

\* Mutant of create_service_context: a single extra parameter is taken as
\* the job context whatever its type.
create_service_context_AnyType(w) ==
    IF Cardinality(DOMAIN w.extras) > 1
    THEN Raised(SysExit(EXIT_BAD_WORKER))
    ELSE Returned([worker_fn |-> w.fn,
                   fn_add_job_context |->
                       IF Cardinality(DOMAIN w.extras) = 1
                       THEN CHOOSE q \in DOMAIN w.extras : TRUE
                       ELSE NoneStr,
                   job_context |-> PyNone])

\* service.py:208-228 with utils.py:13-43: the ServiceContext, or
\* sys.exit(1) for a worker function with more than one extra parameter or
\* with one that is not annotated JobContext.
create_service_context(w) ==
    IF Cardinality(DOMAIN w.extras) > 1
    THEN Raised(SysExit(EXIT_BAD_WORKER))
    ELSE IF Cardinality(DOMAIN w.extras) = 1
         /\ w.extras[CHOOSE q \in DOMAIN w.extras : TRUE] # "JobContext"
    THEN Raised(SysExit(EXIT_BAD_WORKER))
    ELSE Returned([worker_fn |-> w.fn,
                   fn_add_job_context |->
                       IF Cardinality(DOMAIN w.extras) = 1
                       THEN CHOOSE q \in DOMAIN w.extras : TRUE
                       ELSE NoneStr,
                   job_context |-> PyNone])

\* utils.py:53-79: what --test-file names: no file, a file that is not
\* JSON, or a JSON document.
MissingFile == [kind |-> "missing"]
TestFiles == {MissingFile} \cup Bodies

\* args.test_file is None without --test-file.
NoTestFile == [kind |-> "None"]
Args == {[test_file |-> f] : f \in {NoTestFile} \cup TestFiles}

\* utils.py:53-79
file_to_json(f) ==
    IF f.kind = "missing" THEN Raised(Exc("FileNotFoundError", "File not found"))
    ELSE IF f.kind = "notjson" THEN Raised(Exc("ValueError", "Error decoding JSON from file"))
    ELSE Returned(f)

\* do_job applied to any JSON document: job.get at service.py:120 raises
\* for a document that is not an object.
do_job_json(body, svc, auth) ==
    IF body.kind # "dict"
    THEN DoJobResult(Raised(Exc("AttributeError", "'list' object has no attribute 'get'")),
                     0, NoCall, svc.job_context)
    ELSE do_job(body.d, svc, auth)

\* service.py:201: resp.model_dump_json(...) of what do_job returned.
PrintRaises(v) ==
    \/ v.kind \notin {"BaseModel", "ExecutionError"}
    \/ (v.kind = "BaseModel" /\ ~v.dumps)

\* start_batch_service after parsing its arguments (service.py:190).
Init ==
    /\ pc = "start_batch_service"
    /\ entry = "start_batch_service"
    /\ args \in Args
    /\ worker \in Workers
    /\ v_in = PyNone /\ v_job_id = NoneStr /\ v_out = PyNone /\ v_calls = 0
    /\ reporter = NoReporter
    /\ step_scope = NoScope /\ data_proxy = NoProxy /\ argument = NoArgument
    /\ exit_code = NoExit
    /\ base_url \in BaseUrls
    /\ svc_ctxt = NoContext
    /\ fetched = 0
    /\ attempt = 0 /\ wait_time = 1 /\ slept = <<>> /\ gets = 0 /\ lastGet = NoGet
    /\ response = NoGet /\ job_authorization = NoneStr
    /\ job_id = UNBOUND /\ result = PyNone /\ dj = NotRun /\ pushCalls = 0
    /\ push_args = NoArgs /\ request = NoRequest
    /\ p_attempt = 0 /\ p_wait_time = 1 /\ p_slept = <<>> /\ posts = 0 /\ lastPost = 0

(***************************************************************************)
(* start_batch_service                                                     *)
(***************************************************************************)
\* service.py:192-193, 202-205: the service context is created; the run
\* goes on to the test file or to wait_for_work.
CreateServiceContext ==
    /\ pc = "start_batch_service"
    /\ \E c \in {create_service_context(worker)} :
        IF c.raised
        THEN /\ pc' = "exited"
             /\ exit_code' = Exited(c.exc.code)
             /\ UNCHANGED svc_ctxt
        ELSE /\ svc_ctxt' = c.value
             /\ pc' = IF args.test_file # NoTestFile THEN "test_file" ELSE "wait_for_work"
             /\ UNCHANGED exit_code
    /\ UNCHANGED <<fetched, fetchVars, loopVars, pushVars, envVars, verifyVars, reporter, step_scope, legacyVars>>

\* service.py:193-201: the job is read from the file, do_job is called with
\* it and what it returns is printed.  An exception of file_to_json, do_job
\* or model_dump_json is not caught: the process ends with it.
TestFile ==
    /\ pc = "test_file"
    /\ \E f \in {file_to_json(args.test_file)} :
        IF f.raised
        THEN /\ pc' = "crashed"
             /\ UNCHANGED <<dj, svc_ctxt>>
        ELSE \E d \in {do_job_json(f.value, svc_ctxt, NoneStr)} :
             /\ dj' = d
             /\ svc_ctxt' = [svc_ctxt EXCEPT !.job_context = d.job_context]
             /\ pc' = IF d.raised \/ PrintRaises(d.value) THEN "crashed" ELSE "returned"
    /\ UNCHANGED <<exit_code, fetched, fetchVars, response, job_authorization, job_id,
                   result, pushCalls, pushVars, envVars, verifyVars, reporter, step_scope, legacyVars>>

(***************************************************************************)
(* wait_for_work and fetch_job                                             *)
(***************************************************************************)
\* service.py:59-66
WaitForWorkEnter ==
    /\ pc = "wait_for_work"
    /\ pc' = IF get_ivcap_url(base_url) = NoneStr THEN "returned" ELSE "loop_top"
    /\ UNCHANGED <<exit_code, svc_ctxt, fetched, fetchVars, loopVars, pushVars, envVars, verifyVars, reporter, step_scope, legacyVars>>

\* service.py:68-71 and 99-100: a new iteration starts and calls fetch_job.
\* response and the locals of the push_result call that has returned are
\* dead from here on.
LoopTop ==
    /\ pc = "loop_top"
    /\ result' = PyNone
    /\ attempt' = 0 /\ wait_time' = 1
    /\ slept' = <<>> /\ gets' = 0 /\ lastGet' = NoGet
    /\ response' = NoGet /\ job_authorization' = NoneStr
    /\ dj' = NotRun /\ pushCalls' = 0
    /\ push_args' = NoArgs /\ request' = NoRequest
    /\ p_attempt' = 0 /\ p_wait_time' = 1
    /\ p_slept' = <<>> /\ posts' = 0 /\ lastPost' = 0
    /\ pc' = "fetch_job"
    /\ UNCHANGED <<exit_code, svc_ctxt, fetched, job_id, envVars, verifyVars, reporter, step_scope, legacyVars>>

\* Mutant of NextWait: the wait grows by one second instead of doubling.
NextWaitLinear(w) == w + 1

\* service.py:111
NextWait(w) == w * 2

\* service.py:101-106: an attempt that gets a 2xx response returns it.
FetchAttemptOk ==
    /\ pc = "fetch_job"
    /\ attempt < MAX_REQUEST_JOB_ATTEMPTS
    /\ fetched < MaxJobs
    /\ \E g \in Get2xx :
        /\ ~GetRaises(g)
        /\ lastGet' = g
        /\ response' = g
        /\ job_authorization' = g.auth
    /\ gets' = gets + 1
    /\ fetched' = fetched + 1
    /\ pc' = "got_job"
    /\ UNCHANGED <<exit_code, svc_ctxt, attempt, wait_time, slept, job_id, result, dj,
                   pushCalls, pushVars, envVars, verifyVars, reporter, step_scope, legacyVars>>

\* service.py:101-111: an attempt that raises is counted, then the call
\* sleeps wait_time and doubles it.
FetchAttemptFail ==
    /\ pc = "fetch_job"
    /\ attempt < MAX_REQUEST_JOB_ATTEMPTS
    /\ \E g \in GetErrors \cup GetNon2xx :
        /\ GetRaises(g)
        /\ lastGet' = g
    /\ gets' = gets + 1
    /\ attempt' = attempt + 1
    /\ slept' = Append(slept, wait_time)
    /\ wait_time' = NextWait(wait_time)
    /\ UNCHANGED <<pc, exit_code, svc_ctxt, fetched, loopVars, pushVars, envVars, verifyVars, reporter, step_scope, legacyVars>>

\* Mutant of FetchGiveUp: exhaustion is logged and fetch_job's caller returns,
\* as push_result does, instead of exiting the process.
FetchGiveUpQuiet ==
    /\ pc = "fetch_job"
    /\ attempt >= MAX_REQUEST_JOB_ATTEMPTS
    /\ pc' = "returned"
    /\ UNCHANGED <<exit_code, svc_ctxt, fetched, fetchVars, loopVars, pushVars, envVars, verifyVars, reporter, step_scope, legacyVars>>

\* service.py:112-113 with the finally of 88-91 (result is None: no push);
\* SystemExit is not an Exception, so 93-96 do not catch it.
FetchGiveUp ==
    /\ pc = "fetch_job"
    /\ attempt >= MAX_REQUEST_JOB_ATTEMPTS
    /\ pc' = "exited"
    /\ exit_code' = Exited(EXIT_NO_SIDECAR)
    /\ UNCHANGED <<svc_ctxt, fetched, fetchVars, loopVars, pushVars, envVars, verifyVars, reporter, step_scope, legacyVars>>

(***************************************************************************)
(* wait_for_work: one iteration after fetch_job has returned               *)
(***************************************************************************)
UnboundJobId ==
    Exc("UnboundLocalError",
        "cannot access local variable 'job_id' where it is not associated with a value")

\* The state in which the body of the inner try ends: the exception it
\* raises (or PyNone) and the locals job_id and result as it leaves them.
TryEnd(e, jid, res, d) == [exc |-> e, job_id |-> jid, result |-> res, dj |-> d]

\* service.py:79-80: result = do_job(...) then result = verify_result(...),
\* given the outcome d of the do_job call.
TryJob(jid, d) ==
    IF d.raised
    THEN TryEnd(d.exc, jid, PyNone, d)
    ELSE TryEnd(PyNone, jid, verify_result(d.value, jid), d)

\* service.py:72-80, the body of the inner try.
TryBody(resp, auth, svc, jid0) ==
    IF resp.body.kind = "notjson"
    THEN TryEnd(Exc("JSONDecodeError", "Expecting value: line 1 column 1 (char 0)"),
                jid0, PyNone, NotRun)
    ELSE IF resp.body.kind # "dict"
    THEN TryEnd(Exc("AttributeError", "'list' object has no attribute 'get'"),
                jid0, PyNone, NotRun)
    ELSE IF Get(resp.body.d, "$schema", JStr("")).t # "string"
    THEN TryEnd(Exc("AttributeError", "'int' object has no attribute 'startswith'"),
                jid0, PyNone, NotRun)
    ELSE IF StartsWith(Get(resp.body.d, "$schema", JStr("")).v, BATCH_DONE_PREFIX)
    THEN TryEnd(SysExit(EXIT_DONE), jid0, PyNone, NotRun)
    ELSE TryJob(Get(resp.body.d, "id", JStr(UNKNOWN_JOB_ID)).v,
                do_job(resp.body.d, svc, auth))

\* Mutant of HandlerAndFinally: the handler builds the Failure without the
\* class name and the traceback of the exception.
HandlerAndFinally_MessageOnly(t) ==
    LET caught == t.exc # PyNone /\ IsException(t.exc)
        res == IF caught
               THEN ExecutionError(t.exc.msg, "Exception", NoneStr)
               ELSE t.result
        handlerRaises == caught /\ t.job_id = UNBOUND
        finallyRaises == res # PyNone /\ t.job_id = UNBOUND
    IN
    [job_id |-> t.job_id, result |-> res, dj |-> t.dj,
     pushes |-> res # PyNone /\ ~finallyRaises,
     pending |-> IF handlerRaises \/ finallyRaises THEN UnboundJobId
                 ELSE IF caught THEN PyNone
                 ELSE t.exc]

\* service.py:81-90, given the end t of the try body: the `except Exception`
\* handler (81-87) and the finally clause (88-90).  Both f-strings at 87 and
\* 90 read job_id and raise UnboundLocalError when no iteration has assigned
\* it yet.  pushes: the finally clause reaches the push_result call;
\* pending: the exception that is propagating when the clause ends.
HandlerAndFinally(t) ==
    LET caught == t.exc # PyNone /\ IsException(t.exc)
        res == IF caught
               THEN ExecutionError(t.exc.msg, t.exc.cls, TRACEBACK)
               ELSE t.result
        handlerRaises == caught /\ t.job_id = UNBOUND
        finallyRaises == res # PyNone /\ t.job_id = UNBOUND
    IN
    [job_id |-> t.job_id, result |-> res, dj |-> t.dj,
     pushes |-> res # PyNone /\ ~finallyRaises,
     pending |-> IF handlerRaises \/ finallyRaises THEN UnboundJobId
                 ELSE IF caught THEN PyNone
                 ELSE t.exc]

\* service.py:70-91 up to the call of push_result.
Iteration(resp, auth, svc, jid0) == HandlerAndFinally(TryBody(resp, auth, svc, jid0))

\* service.py:93-96: what the outer handlers do with an exception that
\* leaves the loop; an exception they do not catch leaves wait_for_work.
AfterLoop(e) ==
    IF IsException(e) THEN "returned"
    ELSE "exited"

\* service.py:72-91: one iteration, from the return of fetch_job (whose
\* locals are gone) to the call of push_result, the next iteration or the
\* end of the loop.
HandleJob ==
    /\ pc = "got_job"
    /\ \E it \in {Iteration(response, job_authorization, svc_ctxt, job_id)} :
        /\ job_id' = it.job_id
        /\ result' = it.result
        /\ dj' = it.dj
        /\ svc_ctxt' = IF it.dj.kind = "do_job"
                       THEN [svc_ctxt EXCEPT !.job_context = it.dj.job_context]
                       ELSE svc_ctxt
        /\ CASE it.pushes /\ it.pending = PyNone ->
                /\ pc' = "push_result"
                /\ push_args' = [result |-> it.result, job_id |-> it.job_id,
                                 authorization |-> NoneStr]
                /\ pushCalls' = pushCalls + 1
                /\ UNCHANGED exit_code
             [] ~it.pushes /\ it.pending = PyNone ->
                /\ pc' = "loop_top"
                /\ UNCHANGED <<push_args, pushCalls, exit_code>>
             [] ~it.pushes /\ it.pending # PyNone ->
                /\ pc' = AfterLoop(it.pending)
                /\ exit_code' = IF it.pending.cls = "SystemExit"
                                THEN Exited(it.pending.code) ELSE exit_code
                /\ UNCHANGED <<push_args, pushCalls>>
    /\ attempt' = 0 /\ wait_time' = 1
    /\ slept' = <<>> /\ gets' = 0 /\ lastGet' = NoGet
    /\ UNCHANGED <<fetched, response, job_authorization, request,
                   p_attempt, p_wait_time, p_slept, posts, lastPost, envVars, verifyVars, reporter, step_scope, legacyVars>>

(***************************************************************************)
(* push_result                                                             *)
(***************************************************************************)
PostOkStatus == {200}
PostFailStatus == {0, 500}

\* Where push_result returns to.
PushReturn == IF entry = "start_batch_service" THEN "loop_top" ELSE "returned"

\* ivcap.py:77-117
PushEnter ==
    /\ pc = "push_result"
    /\ IF get_ivcap_url(base_url) = NoneStr
       THEN /\ pc' = PushReturn
            /\ UNCHANGED <<request, p_attempt, p_wait_time, p_slept, posts, lastPost>>
       ELSE /\ request' = PushRequest(push_args.result, push_args.job_id,
                                      push_args.authorization)
            /\ p_attempt' = 0 /\ p_wait_time' = 1
            /\ p_slept' = <<>> /\ posts' = 0 /\ lastPost' = 0
            /\ pc' = "post"
    /\ UNCHANGED <<exit_code, svc_ctxt, fetched, fetchVars, loopVars, push_args, envVars, verifyVars, reporter, step_scope, legacyVars>>

\* ivcap.py:132
NextPushWait(w) == w * 2

\* ivcap.py:119-127
PostOk ==
    /\ pc = "post"
    /\ p_attempt < MAX_DELIVER_RESULT_ATTEMPTS
    /\ \E st \in PostOkStatus : lastPost' = st
    /\ posts' = posts + 1
    /\ pc' = PushReturn
    /\ UNCHANGED <<exit_code, svc_ctxt, fetched, fetchVars, loopVars, push_args, request,
                   p_attempt, p_wait_time, p_slept, envVars, verifyVars, reporter, step_scope, legacyVars>>

\* ivcap.py:119-132
PostFail ==
    /\ pc = "post"
    /\ p_attempt < MAX_DELIVER_RESULT_ATTEMPTS
    /\ \E st \in PostFailStatus : lastPost' = st
    /\ posts' = posts + 1
    /\ p_attempt' = p_attempt + 1
    /\ p_slept' = Append(p_slept, p_wait_time)
    /\ p_wait_time' = NextPushWait(p_wait_time)
    /\ UNCHANGED <<pc, exit_code, svc_ctxt, fetched, fetchVars, loopVars, push_args,
                   request, envVars, verifyVars, reporter, step_scope, legacyVars>>

\* Mutant of PushGiveUp: push exhaustion exits the process as fetch
\* exhaustion does.
PushGiveUpFatal ==
    /\ pc = "post"
    /\ p_attempt >= MAX_DELIVER_RESULT_ATTEMPTS
    /\ pc' = "exited"
    /\ exit_code' = Exited(EXIT_NO_SIDECAR)
    /\ UNCHANGED <<svc_ctxt, fetched, fetchVars, loopVars, pushVars, envVars, verifyVars, reporter, step_scope, legacyVars>>

\* ivcap.py:119, 134: the loop ends after the last attempt; the call returns.
PushGiveUp ==
    /\ pc = "post"
    /\ p_attempt >= MAX_DELIVER_RESULT_ATTEMPTS
    /\ pc' = PushReturn
    /\ UNCHANGED <<exit_code, svc_ctxt, fetched, fetchVars, loopVars, pushVars, envVars, verifyVars, reporter, step_scope, legacyVars>>

(***************************************************************************)
(* Specifications                                                          *)
(***************************************************************************)
Next ==
    \/ CreateServiceContext
    \/ TestFile
    \/ WaitForWorkEnter
    \/ LoopTop
    \/ FetchAttemptOk
    \/ FetchAttemptFail
    \/ FetchGiveUp
    \/ HandleJob
    \/ PushEnter
    \/ PostOk
    \/ PostFail
    \/ PushGiveUp

Spec == Init /\ [][Next]_vars

\* push_result called on its own (it is exported by the package).
PushResults ==
    {ExecutionError("boom", "RuntimeError", TRACEBACK),
     ExecutionError("cannot json serialise result", "TypeError", NoneStr),
     IvcapResult(Serialised("model_dump_json", BaseModelValue(OUTPUT_MODEL, TRUE)),
                 "application/json", BaseModelValue(OUTPUT_MODEL, TRUE)),
     IvcapResult([kind |-> "str", v |-> "hello"], "text/plain", [kind |-> "str", v |-> "hello"]),
     IvcapResult([kind |-> "bytes", v |-> "png"], "image/png", PyNone),
     BinaryResult("image/png", [kind |-> "bytes", v |-> "png"]),
     [kind |-> "dict", v |-> "y=2"],
     PyNone}
PushJobIds == {"42", UNKNOWN_JOB_ID}
PushAuthorizations == {NoneStr, "", "Bearer tokA"}

InitPush ==
    /\ pc = "push_result"
    /\ entry = "push_result"
    /\ args = [test_file |-> NoTestFile]
    /\ worker = CHOOSE w \in Workers : TRUE
    /\ v_in = PyNone /\ v_job_id = NoneStr /\ v_out = PyNone /\ v_calls = 0
    /\ reporter = NoReporter
    /\ step_scope = NoScope /\ data_proxy = NoProxy /\ argument = NoArgument
    /\ exit_code = NoExit
    /\ base_url \in BaseUrls
    /\ svc_ctxt = CHOOSE c \in ServiceContexts : TRUE
    /\ fetched = 0
    /\ attempt = 0 /\ wait_time = 1 /\ slept = <<>> /\ gets = 0 /\ lastGet = NoGet
    /\ response = NoGet /\ job_authorization = NoneStr
    /\ job_id = UNBOUND /\ result = PyNone /\ dj = NotRun /\ pushCalls = 1
    /\ push_args \in [result : PushResults, job_id : PushJobIds,
                      authorization : PushAuthorizations]
    /\ request = NoRequest
    /\ p_attempt = 0 /\ p_wait_time = 1 /\ p_slept = <<>> /\ posts = 0 /\ lastPost = 0

NextPush ==
    \/ PushEnter
    \/ PostOk
    \/ PostFail
    \/ PushGiveUp

SpecPush == InitPush /\ [][NextPush]_vars

(***************************************************************************)
(* verify_result on its own, over the values a worker can return           *)
(***************************************************************************)
\* Calls of verify_result in a row, each on what the previous one returned.
MaxApplications == 3

BufferedReader == [kind |-> "BufferedReader", v |-> "open(f, 'rb')"]

\* Values of every type verify_result tells apart, and values of none.
VerifyInputs ==
    {BaseModelValue(c, d) : c \in {OUTPUT_MODEL, "Other"}, d \in BOOLEAN}
    \cup {BinaryResult(ct, c) :
            ct \in {"image/png", "text/csv"},
            c \in {[kind |-> "bytes", v |-> "png"], [kind |-> "str", v |-> "a,b"],
                   BufferedReader}}
    \cup {IvcapResult([kind |-> "str", v |-> "done"], "text/plain", PyNone)}
    \cup {[kind |-> "str", v |-> "hello"], [kind |-> "str", v |-> ""],
          [kind |-> "bytes", v |-> "png"],
          BufferedReader,
          [kind |-> "BinaryIOSubclass", v |-> "stream"],
          [kind |-> "dict", v |-> "y=2"],
          [kind |-> "list", v |-> "1,2"],
          [kind |-> "number", v |-> "7"],
          PyNone,
          [kind |-> "set", v |-> "1,2"],
          [kind |-> "object", v |-> "Thing()"]}
    \cup {ExecutionError(e, t, tb) :
            e \in {"boom", "42: cannot json serialise result"},
            t \in {"RuntimeError", "TypeError"},
            tb \in {NoneStr, TRACEBACK}}

VerifyJobIds == {"42", "0000-000", UNKNOWN_JOB_ID}

InitVerify ==
    /\ pc = "verify_result"
    /\ entry = "verify_result"
    /\ args = [test_file |-> NoTestFile]
    /\ worker = CHOOSE w \in Workers : TRUE
    /\ v_in \in VerifyInputs /\ v_job_id \in VerifyJobIds
    /\ v_out = v_in /\ v_calls = 0
    /\ reporter = NoReporter
    /\ step_scope = NoScope /\ data_proxy = NoProxy /\ argument = NoArgument
    /\ exit_code = NoExit
    /\ base_url = NoneStr
    /\ svc_ctxt = NoContext
    /\ fetched = 0
    /\ attempt = 0 /\ wait_time = 1 /\ slept = <<>> /\ gets = 0 /\ lastGet = NoGet
    /\ response = NoGet /\ job_authorization = NoneStr
    /\ job_id = UNBOUND /\ result = PyNone /\ dj = NotRun /\ pushCalls = 0
    /\ push_args = NoArgs /\ request = NoRequest
    /\ p_attempt = 0 /\ p_wait_time = 1 /\ p_slept = <<>> /\ posts = 0 /\ lastPost = 0

\* ivcap.py:25-73: one call, on the input or on what the call before returned.
VerifyResult ==
    /\ pc = "verify_result"
    /\ v_calls < MaxApplications
    /\ v_out' = verify_result(v_out, v_job_id)
    /\ v_calls' = v_calls + 1
    /\ UNCHANGED <<pc, exit_code, svc_ctxt, fetched, fetchVars, loopVars, pushVars,
                   envVars, v_in, v_job_id, reporter, step_scope, legacyVars>>

NextVerify == VerifyResult

SpecVerify == InitVerify /\ [][NextVerify]_vars

(***************************************************************************)
(* A worker function that reports events while it runs                     *)
(***************************************************************************)
\* Emit calls one worker run makes.
MaxEmits == 2

InitEmit ==
    /\ pc = "worker_running"
    /\ entry = "worker_fn"
    /\ args = [test_file |-> NoTestFile]
    /\ worker = CHOOSE w \in Workers : TRUE
    /\ v_in = PyNone /\ v_job_id = NoneStr /\ v_out = PyNone /\ v_calls = 0
    /\ reporter = NoReporter
    /\ step_scope = NoScope /\ data_proxy = NoProxy /\ argument = NoArgument
    /\ exit_code = NoExit
    /\ base_url = NoneStr
    /\ svc_ctxt = NoContext
    /\ fetched = 0
    /\ attempt = 0 /\ wait_time = 1 /\ slept = <<>> /\ gets = 0 /\ lastGet = NoGet
    /\ response = NoGet /\ job_authorization = NoneStr
    /\ job_id = UNBOUND /\ result = PyNone /\ dj = NotRun /\ pushCalls = 0
    /\ push_args = NoArgs /\ request = NoRequest
    /\ p_attempt = 0 /\ p_wait_time = 1 /\ p_slept = <<>> /\ posts = 0 /\ lastPost = 0

\* The worker calls one emit method.  An exception that leaves the method
\* leaves the worker: the job fails with it.
Emit ==
    /\ pc = "worker_running"
    /\ reporter.calls < MaxEmits
    /\ \E m \in EmitMethods, build \in BuildOutcomes, send \in SendOutcomes,
          ts \in Timestamps :
        \E r \in {EventReporter_emit(m, build, send, ts)} :
            /\ reporter' =
                  [calls |-> reporter.calls + 1,
                   sent |-> reporter.sent + (IF r.sent # NoEvent THEN 1 ELSE 0),
                   errors |-> reporter.errors + (IF r.logged # NoLog THEN 1 ELSE 0),
                   call |-> [kind |-> "call", method |-> m.method,
                             build |-> build, send |-> send, timestamp |-> ts],
                   last |-> r]
            /\ pc' = IF r.raised THEN "worker_raised" ELSE "worker_running"
    /\ UNCHANGED <<exit_code, svc_ctxt, fetched, fetchVars, loopVars, pushVars,
                   envVars, verifyVars, step_scope, legacyVars>>

\* The worker returns its result.
WorkerReturns ==
    /\ pc = "worker_running"
    /\ pc' = "worker_returned"
    /\ UNCHANGED <<exit_code, svc_ctxt, fetched, fetchVars, loopVars, pushVars,
                   envVars, verifyVars, reporter, step_scope, legacyVars>>

NextEmit == Emit \/ WorkerReturns

SpecEmit == InitEmit /\ [][NextEmit]_vars

(***************************************************************************)
(* events.py: EventReporter.step, a `with reporter.step(name) as ctxt:`     *)
(***************************************************************************)
\* Events the body of the with statement emits itself, at most.
MaxBodyEmits == 1

StepNames == {"load", "infer"}
RawEvents == {NoneStr, "raw"}

\* Exceptions the body raises.
BodyExceptions == {Exc("RuntimeError", "boom"), Exc("KeyboardInterrupt", "")}

\* What the sink does with the events of this statement.
ScopeSendOutcomes == {Returned(PyNone), Raised(Exc("ConnectionError", "sink down"))}

EmitMethod(name) == CHOOSE m \in EmitMethods : m.method = name

\* One call of an emit method: its first argument, raw_event (or code for
\* run_error), timestamp, and whether the event reached the sink.
EmitCall(method, arg, raw_event, ts, send) ==
    [method |-> method, arg |-> arg, raw_event |-> raw_event, timestamp |-> ts,
     delivered |-> EventReporter_emit(EmitMethod(method), Returned(PyNone), send, ts).sent
                     # NoEvent]

CountOf(calls, method) == Cardinality({i \in DOMAIN calls : calls[i].method = method})

InitScope ==
    /\ pc = "scope_enter"
    /\ entry = "EventReporter.step"
    /\ args = [test_file |-> NoTestFile]
    /\ worker = CHOOSE w \in Workers : TRUE
    /\ v_in = PyNone /\ v_job_id = NoneStr /\ v_out = PyNone /\ v_calls = 0
    /\ reporter = NoReporter
    /\ data_proxy = NoProxy /\ argument = NoArgument
    /\ \E n \in StepNames, r \in RawEvents, ts \in Timestamps, snk \in ScopeSendOutcomes :
          step_scope = [kind |-> "scope", step_name |-> n, raw_event |-> r,
                        timestamp |-> ts, sink |-> snk, emitted |-> <<>>,
                        exit_msg |-> NoneStr, exit_timestamp |-> NoneStr,
                        body |-> PyNone, raised |-> PyNone]
    /\ exit_code = NoExit
    /\ base_url = NoneStr
    /\ svc_ctxt = NoContext
    /\ fetched = 0
    /\ attempt = 0 /\ wait_time = 1 /\ slept = <<>> /\ gets = 0 /\ lastGet = NoGet
    /\ response = NoGet /\ job_authorization = NoneStr
    /\ job_id = UNBOUND /\ result = PyNone /\ dj = NotRun /\ pushCalls = 0
    /\ push_args = NoArgs /\ request = NoRequest
    /\ p_attempt = 0 /\ p_wait_time = 1 /\ p_slept = <<>> /\ posts = 0 /\ lastPost = 0

\* events.py:148-151: the EventContext is made, start_fn is called and the
\* generator yields: the body starts.
ScopeEnter ==
    /\ pc = "scope_enter"
    /\ step_scope' = [step_scope EXCEPT !.emitted =
            Append(@, EmitCall("step_started", step_scope.step_name, step_scope.raw_event,
                               step_scope.timestamp, step_scope.sink))]
    /\ pc' = "scope_body"
    /\ UNCHANGED <<exit_code, svc_ctxt, fetched, fetchVars, loopVars, pushVars,
                   envVars, verifyVars, reporter, legacyVars>>

\* The body emits an event of its own.
BodyEmits ==
    /\ pc = "scope_body"
    /\ CountOf(step_scope.emitted, "custom") < MaxBodyEmits
    /\ step_scope' = [step_scope EXCEPT !.emitted =
            Append(@, EmitCall("custom", "progress", NoneStr, NoneStr, step_scope.sink))]
    /\ UNCHANGED <<pc, exit_code, svc_ctxt, fetched, fetchVars, loopVars, pushVars,
                   envVars, verifyVars, reporter, legacyVars>>

\* events.py:62-64: the body calls ctxt.finished(msg, timestamp).
BodyCallsFinished ==
    /\ pc = "scope_body"
    /\ step_scope.exit_msg = NoneStr
    /\ \E ts \in Timestamps :
        step_scope' = [step_scope EXCEPT !.exit_msg = "done", !.exit_timestamp = ts]
    /\ UNCHANGED <<pc, exit_code, svc_ctxt, fetched, fetchVars, loopVars, pushVars,
                   envVars, verifyVars, reporter, legacyVars>>

\* The body ends normally: the generator is resumed after its yield.
BodyReturns ==
    /\ pc = "scope_body"
    /\ pc' = "scope_exit"
    /\ UNCHANGED <<exit_code, svc_ctxt, fetched, fetchVars, loopVars, pushVars,
                   envVars, verifyVars, reporter, step_scope, legacyVars>>

\* The body raises: the exception is thrown into the generator at its yield.
BodyRaises ==
    /\ pc = "scope_body"
    /\ \E e \in BodyExceptions : step_scope' = [step_scope EXCEPT !.body = e]
    /\ pc' = "scope_except"
    /\ UNCHANGED <<exit_code, svc_ctxt, fetched, fetchVars, loopVars, pushVars,
                   envVars, verifyVars, reporter, legacyVars>>

\* events.py:157 with 66-67: ctxt._finished(finish_fn).
ScopeFinish ==
    /\ pc = "scope_exit"
    /\ step_scope' = [step_scope EXCEPT !.emitted =
            Append(@, EmitCall("step_finished", step_scope.step_name, step_scope.exit_msg,
                               step_scope.exit_timestamp, step_scope.sink))]
    /\ pc' = "scope_done"
    /\ UNCHANGED <<exit_code, svc_ctxt, fetched, fetchVars, loopVars, pushVars,
                   envVars, verifyVars, reporter, legacyVars>>

\* Mutant of ScopeExcept: the finish function runs on the way out as well,
\* as in a try/finally.
ScopeExceptThenFinish ==
    /\ pc = "scope_except"
    /\ step_scope' =
          [step_scope EXCEPT
              !.emitted =
                  IF IsException(step_scope.body)
                  THEN @ \o <<EmitCall("run_error",
                                 "exception in event '" \o step_scope.step_name \o "' - "
                                     \o step_scope.body.msg,
                                 TRACEBACK, NoneStr, step_scope.sink),
                              EmitCall("step_finished", step_scope.step_name,
                                       step_scope.exit_msg, step_scope.exit_timestamp,
                                       step_scope.sink)>>
                  ELSE @,
              !.raised = step_scope.body]
    /\ pc' = "scope_raised"
    /\ UNCHANGED <<exit_code, svc_ctxt, fetched, fetchVars, loopVars, pushVars,
                   envVars, verifyVars, reporter, legacyVars>>

\* events.py:152-156 (157 is not reached): `except Exception` emits
\* run_error(message, trace) and re-raises; any other exception leaves the
\* generator as it is.
ScopeExcept ==
    /\ pc = "scope_except"
    /\ step_scope' =
          [step_scope EXCEPT
              !.emitted =
                  IF IsException(step_scope.body)
                  THEN Append(@, EmitCall("run_error",
                                 "exception in event '" \o step_scope.step_name \o "' - "
                                     \o step_scope.body.msg,
                                 TRACEBACK, NoneStr, step_scope.sink))
                  ELSE @,
              !.raised = step_scope.body]
    /\ pc' = "scope_raised"
    /\ UNCHANGED <<exit_code, svc_ctxt, fetched, fetchVars, loopVars, pushVars,
                   envVars, verifyVars, reporter, legacyVars>>

NextScope ==
    \/ ScopeEnter
    \/ BodyEmits
    \/ BodyCallsFinished
    \/ BodyReturns
    \/ BodyRaises
    \/ ScopeFinish
    \/ ScopeExcept

SpecScope == InitScope /\ [][NextScope]_vars

(***************************************************************************)
(* Legacy SDK, ivcap_sdk_service/service.py: Parameter and Arguments.build *)
(***************************************************************************)
\* service.py:42-61, and a type given as a plain string instead.
TypeNames == {"STRING", "INT", "FLOAT", "BOOL", "OPTION", "ARTIFACT", "COLLECTION"}
TypeValues == TypeNames \cup {"not-a-Type"}

\* Values given as `default` to Parameter(...).
DefaultValues ==
    {PyNone,
     [kind |-> "str", v |-> ""],
     [kind |-> "str", v |-> "abc"],
     [kind |-> "number", v |-> "0"],
     [kind |-> "number", v |-> "100"],
     [kind |-> "bool", v |-> "False"]}

\* service.py:187-197: str(value) unless the value is None or a str.
to_str(value) ==
    IF value.kind \in {"None", "str"} THEN value ELSE [kind |-> "str", v |-> value.v]

\* bool(x) of a value that is None or a str.
Truthy(x) == x.kind = "str" /\ x.v # ""

\* service.py:147-179: the dataclass after __post_init__.
Parameter(type, description, default, optional, constant) ==
    [kind |-> "Parameter", type |-> type, description |-> description,
     default |-> to_str(default), optional |-> optional, constant |-> constant]

Parameters ==
    {Parameter(t, dsc, dflt, o, c) :
        t \in TypeValues, dsc \in {NoneStr, "number of things to do"},
        dflt \in DefaultValues, o \in BOOLEAN, c \in BOOLEAN}

\* service.py:91-114: the entry of action_map for the type, if any.
ActionMap(t) ==
    IF t = "OPTION" THEN [action |-> NoneStr, required |-> TRUE, type |-> NoneStr,
                          metavar |-> NoneStr]
    ELSE IF t = "ARTIFACT" THEN [action |-> "ArtifactAction", required |-> TRUE,
                                 type |-> "verify_artifact", metavar |-> "URN"]
    ELSE IF t = "COLLECTION" THEN [action |-> "CollectionAction", required |-> TRUE,
                                   type |-> "verify_collection", metavar |-> "URN"]
    ELSE IF t = "BOOL" THEN [action |-> "store_true", required |-> FALSE,
                             type |-> NoneStr, metavar |-> NoneStr]
    ELSE [action |-> NoneStr, required |-> TRUE,
          type |-> CASE t = "STRING" -> "str" [] t = "INT" -> "int" [] t = "FLOAT" -> "float",
          metavar |-> t]

\* The keyword arguments build returns; NoneStr for a key that is not set.
BuiltArgs(am, required, default, help) ==
    [kind |-> "args", required |-> required, action |-> am.action, type |-> am.type,
     metavar |-> am.metavar, default |-> default, help |-> help]

\* Mutant of build: only a constant parameter stops being required, a
\* default does not.
build_IgnoresDefault(parameter) ==
    IF parameter.type \notin TypeNames
    THEN Raised(Exc("ValueError", "Wrong type declaration - use enum 'Type'"))
    ELSE
    LET am == ActionMap(parameter.type)
        r1 == IF parameter.optional THEN ~parameter.optional ELSE am.required
        r2 == IF parameter.constant THEN FALSE ELSE r1
    IN Returned(BuiltArgs(am, r2,
            IF Truthy(parameter.default) THEN parameter.default.v ELSE NoneStr,
            IF parameter.description = NoneStr THEN NoneStr
            ELSE IF Truthy(parameter.default)
                 THEN parameter.description \o " [" \o parameter.default.v \o "]"
                 ELSE parameter.description))

\* service.py:69-144
build(parameter) ==
    IF parameter.type \notin TypeNames
    THEN Raised(Exc("ValueError", "Wrong type declaration - use enum 'Type'"))
    ELSE
    LET am == ActionMap(parameter.type)
        r1 == IF parameter.optional THEN ~parameter.optional ELSE am.required
        r2 == IF parameter.constant \/ Truthy(parameter.default) THEN FALSE ELSE r1
    IN Returned(BuiltArgs(am, r2,
            IF Truthy(parameter.default) THEN parameter.default.v ELSE NoneStr,
            IF parameter.description = NoneStr THEN NoneStr
            ELSE IF Truthy(parameter.default)
                 THEN parameter.description \o " [" \o parameter.default.v \o "]"
                 ELSE parameter.description))

InitBuild ==
    /\ pc = "build"
    /\ entry = "Arguments.build"
    /\ args = [test_file |-> NoTestFile]
    /\ worker = CHOOSE w \in Workers : TRUE
    /\ v_in = PyNone /\ v_job_id = NoneStr /\ v_out = PyNone /\ v_calls = 0
    /\ reporter = NoReporter
    /\ step_scope = NoScope /\ data_proxy = NoProxy
    /\ \E dflt \in DefaultValues, prm \in Parameters :
          /\ prm.default = to_str(dflt)
          /\ argument = [given_default |-> dflt, parameter |-> prm, out |-> PyNone]
    /\ exit_code = NoExit
    /\ base_url = NoneStr
    /\ svc_ctxt = NoContext
    /\ fetched = 0
    /\ attempt = 0 /\ wait_time = 1 /\ slept = <<>> /\ gets = 0 /\ lastGet = NoGet
    /\ response = NoGet /\ job_authorization = NoneStr
    /\ job_id = UNBOUND /\ result = PyNone /\ dj = NotRun /\ pushCalls = 0
    /\ push_args = NoArgs /\ request = NoRequest
    /\ p_attempt = 0 /\ p_wait_time = 1 /\ p_slept = <<>> /\ posts = 0 /\ lastPost = 0

\* arguments.build(parameter)
Build ==
    /\ pc = "build"
    /\ argument' = [argument EXCEPT !.out = build(argument.parameter)]
    /\ pc' = "built"
    /\ UNCHANGED <<exit_code, svc_ctxt, fetched, fetchVars, loopVars, pushVars,
                   envVars, verifyVars, reporter, step_scope, data_proxy>>

NextBuild == Build

SpecBuild == InitBuild /\ [][NextBuild]_vars

(***************************************************************************)
(* Legacy SDK, ivcap_sdk_service/run.py: wait_for_data_proxy               *)
(***************************************************************************)
\* Largest IVCAP_DATA_PROXY_RETRIES tried; the default is 5.
MaxRetries == 5

\* IVCAP_DATA_PROXY_DELAY in seconds; the default is 3.
DelayValues == {0, 1, 3}

\* What requests.head(url) does: a response of any status, or an exception.
HeadOutcomes ==
    {Returned([kind |-> "response", status |-> 200]),
     Returned([kind |-> "response", status |-> 503]),
     Raised(Exc("ConnectionError", "connection refused"))}

NoProbe == Returned(PyNone)

InitDataProxy ==
    /\ pc = "wait_for_data_proxy"
    /\ entry = "wait_for_data_proxy"
    /\ args = [test_file |-> NoTestFile]
    /\ worker = CHOOSE w \in Workers : TRUE
    /\ v_in = PyNone /\ v_job_id = NoneStr /\ v_out = PyNone /\ v_calls = 0
    /\ reporter = NoReporter
    /\ step_scope = NoScope /\ argument = NoArgument
    /\ \E inside \in BOOLEAN, retries \in 0..MaxRetries, delay \in DelayValues :
          data_proxy = [INSIDE_ARGO |-> inside, retries |-> retries, delay |-> delay,
                        probes |-> 0, slept |-> <<>>, last |-> NoProbe,
                        raised |-> PyNone]
    /\ exit_code = NoExit
    /\ base_url = NoneStr
    /\ svc_ctxt = NoContext
    /\ fetched = 0
    /\ attempt = 0 /\ wait_time = 1 /\ slept = <<>> /\ gets = 0 /\ lastGet = NoGet
    /\ response = NoGet /\ job_authorization = NoneStr
    /\ job_id = UNBOUND /\ result = PyNone /\ dj = NotRun /\ pushCalls = 0
    /\ push_args = NoArgs /\ request = NoRequest
    /\ p_attempt = 0 /\ p_wait_time = 1 /\ p_slept = <<>> /\ posts = 0 /\ lastPost = 0

\* run.py:103-104
DataProxyEnter ==
    /\ pc = "wait_for_data_proxy"
    /\ pc' = IF ~data_proxy.INSIDE_ARGO THEN "dp_returned" ELSE "dp_probe"
    /\ UNCHANGED <<exit_code, svc_ctxt, fetched, fetchVars, loopVars, pushVars,
                   envVars, verifyVars, reporter, step_scope, legacyVars>>

\* run.py:110-114: a probe that gets a response.
ProbeOk ==
    /\ pc = "dp_probe"
    /\ data_proxy.probes < data_proxy.retries
    /\ \E h \in HeadOutcomes :
        /\ ~h.raised
        /\ data_proxy' = [data_proxy EXCEPT !.probes = @ + 1, !.last = h]
    /\ pc' = "dp_returned"
    /\ UNCHANGED <<exit_code, svc_ctxt, fetched, fetchVars, loopVars, pushVars,
                   envVars, verifyVars, reporter, step_scope, argument>>

\* Mutant of ProbeFail: the next probe follows without a sleep.
ProbeFailNoSleep ==
    /\ pc = "dp_probe"
    /\ data_proxy.probes < data_proxy.retries
    /\ \E h \in HeadOutcomes :
        /\ h.raised
        /\ data_proxy' = [data_proxy EXCEPT !.probes = @ + 1, !.last = h]
    /\ UNCHANGED <<pc, exit_code, svc_ctxt, fetched, fetchVars, loopVars, pushVars,
                   envVars, verifyVars, reporter, step_scope, argument>>

\* run.py:110-119: a probe that raises, and the sleep after it.
ProbeFail ==
    /\ pc = "dp_probe"
    /\ data_proxy.probes < data_proxy.retries
    /\ \E h \in HeadOutcomes :
        /\ h.raised
        /\ data_proxy' = [data_proxy EXCEPT !.probes = @ + 1, !.last = h,
                                            !.slept = Append(@, data_proxy.delay)]
    /\ UNCHANGED <<pc, exit_code, svc_ctxt, fetched, fetchVars, loopVars, pushVars,
                   envVars, verifyVars, reporter, step_scope, argument>>

\* run.py:120: the for loop is exhausted.
DataProxyGiveUp ==
    /\ pc = "dp_probe"
    /\ data_proxy.probes >= data_proxy.retries
    /\ data_proxy' = [data_proxy EXCEPT !.raised =
                        Exc("Exception", "Can't contact data-proxy after "
                                         \o ToString(data_proxy.retries) \o " retries")]
    /\ pc' = "dp_raised"
    /\ UNCHANGED <<exit_code, svc_ctxt, fetched, fetchVars, loopVars, pushVars,
                   envVars, verifyVars, reporter, step_scope, argument>>

NextDataProxy == DataProxyEnter \/ ProbeOk \/ ProbeFail \/ DataProxyGiveUp

SpecDataProxy == InitDataProxy /\ [][NextDataProxy]_vars

\* Either entry point: start_batch_service, or push_result called on its own.
SpecAny == (Init \/ InitPush) /\ [][Next]_vars

(***************************************************************************)
(* Properties                                                              *)
(***************************************************************************)
\* The response held by the loop is a job envelope (a JSON object).
IsJob(resp) == resp.status = 200 /\ resp.body.kind = "dict"

\* The envelope carries the batch-done signal.
IsBatchDone(resp) ==
    /\ IsJob(resp)
    /\ Get(resp.body.d, "$schema", JStr("")).t = "string"
    /\ StartsWith(Get(resp.body.d, "$schema", JStr("")).v, BATCH_DONE_PREFIX)

\* A job with a string schema that is not batch-done, content type
\* application/json and content the input model accepts.
IsValidJob(resp) ==
    /\ IsJob(resp)
    /\ ~IsBatchDone(resp)
    /\ Get(resp.body.d, "$schema", JStr("")).t = "string"
    /\ Get(resp.body.d, "in-content-type", Absent) = JStr("application/json")
    /\ Get(resp.body.d, "in-content", Absent) = JObj("accepted")

\* The iteration that handled the current response is over.
IterationOver == pc \in {"loop_top", "returned", "exited"}

IsCanonical(r) == r.kind \in {"ExecutionError", "IvcapResult"}

\* C1: for every fetched job that is not the batch-done signal, exactly one
\* canonical result (a Success or a Failure, never None) has been handed to
\* push_result when its iteration is over.
C1_ExactlyOneResultPerJob ==
    (IterationOver /\ IsJob(response) /\ ~IsBatchDone(response))
        => (pushCalls = 1 /\ IsCanonical(push_args.result))

\* C2: once 4 attempts of one fetch_job call have failed, exactly 4 GETs
\* were made, the next step exits the process with status 255, and no
\* push_result call is made in that iteration.
C2_FetchExhaustionIsFatal ==
    [][(pc = "fetch_job" /\ attempt >= 4)
        => (/\ gets = 4 /\ pushCalls = 0
            /\ pc' = "exited" /\ exit_code' = Exited(255)
            /\ gets' = 4 /\ pushCalls' = 0 /\ posts' = 0)]_vars

\* C2 witness: fetch exhaustion after an earlier job was processed.
C2_Witness ==
    /\ pc = "exited" /\ exit_code = Exited(255)
    /\ gets = 4 /\ fetched >= 1 /\ job_id # UNBOUND

\* C3: when fetch_job returns after 3 failed attempts, it has made exactly
\* 4 GETs, slept 1s, 2s and 4s in that order, and returns the response of
\* the 4th GET.
C3_BackoffThenSuccess ==
    (pc = "got_job" /\ attempt = 3)
        => (/\ gets = 4
            /\ slept = <<1, 2, 4>>
            /\ response = lastGet /\ lastGet.status = 200
            /\ job_authorization = lastGet.auth)

C3_Witness ==
    /\ pc = "got_job" /\ attempt = 3 /\ gets = 4
    /\ IsJob(response) /\ ~IsBatchDone(response)

\* The schemas among SchemaValues that start with
\* urn:ivcap:schema.service.batch.done, written out.
DoneSchemas == {JStr("urn:ivcap:schema.service.batch.done.1")}

HasDoneSchema(resp) ==
    /\ IsJob(resp)
    /\ Get(resp.body.d, "$schema", Absent) \in DoneSchemas

\* C4: a job whose $schema starts with the batch-done prefix makes the
\* process exit with status 0 without push_result, a POST or the worker
\* function being called, and an exited process takes no further step.
C4_BatchDoneExitsCleanly ==
    [][/\ (pc = "got_job" /\ HasDoneSchema(response))
            => (/\ pc' = "exited" /\ exit_code' = Exited(0)
                /\ pushCalls' = 0 /\ posts' = 0
                /\ dj'.kind = "notrun" /\ dj'.calls = 0)
       /\ pc # "exited"]_vars

C4_Witness ==
    /\ pc = "exited" /\ exit_code = Exited(0)
    /\ HasDoneSchema(response) /\ fetched = 2

\* The sleeps of a call that has failed n times, starting at 1s and doubling.
Backoff(n) == [i \in 1..n |-> 2 ^ (i - 1)]

\* C5: a push_result call makes at most 4 POSTs, its n-th failure is
\* followed by a sleep of 2^(n-1) seconds whatever happened before the
\* call, and after the 4th failure it returns to the loop, which goes on
\* with the next iteration; the process does not exit.
C5_PushExhaustionIsNotFatal ==
    [][/\ (pc' = "post")
            => (/\ posts' = p_attempt' /\ posts' <= 4
                /\ p_slept' = Backoff(posts')
                /\ p_wait_time' = 2 ^ posts')
       /\ (pc = "post" /\ p_attempt >= 4)
            => (pc' = "loop_top" /\ exit_code' = NoExit /\ posts' = 4)
       /\ (pc \in {"push_result", "post"}) => (pc' \in {"post", "loop_top"})
       /\ (pc = "loop_top") => (pc' = "fetch_job")]_vars

\* C5 witness: back in the loop after a push that failed 4 times.
C5_Witness ==
    /\ pc = "loop_top" /\ posts = 4 /\ p_attempt = 4
    /\ p_slept = <<1, 2, 4, 8>> /\ exit_code = NoExit

HasOtherContentType(resp) ==
    /\ IsJob(resp)
    /\ "in-content-type" \in DOMAIN resp.body.d
    /\ resp.body.d["in-content-type"] # JStr("application/json")

\* C7: for a job whose in-content-type is not application/json, do_job
\* returns a Failure and does not invoke the worker function.
C7_OtherContentTypeReturnsFailure ==
    (dj.kind = "do_job" /\ HasOtherContentType(response))
        => (/\ ~dj.raised
            /\ dj.value.kind = "ExecutionError"
            /\ dj.calls = 0)

\* C8: for a valid job and a worker function that raises an exception of
\* class E with message M, do_job returns a Failure with type E, error M and
\* a non-empty traceback.
C8_WorkerExceptionBecomesFailure ==
    (dj.kind = "do_job" /\ IsValidJob(response) /\ svc_ctxt.worker_fn.kind = "raises")
        => (/\ ~dj.raised
            /\ dj.value.kind = "ExecutionError"
            /\ dj.value.type = svc_ctxt.worker_fn.exc.cls
            /\ dj.value.error = svc_ctxt.worker_fn.exc.msg
            /\ dj.value.traceback \notin {NoneStr, ""})

\* C9: an exception raised inside the worker function (SystemExit and
\* MemoryError included) does not end the process or the loop: the worker
\* was called, the loop calls push_result with the Failure made from that
\* exception, and goes on.
C9_WorkerExceptionIsPushed ==
    (IsValidJob(response) /\ svc_ctxt.worker_fn.kind = "raises"
        /\ pc \in {"push_result", "post", "loop_top", "returned", "exited"})
        => (/\ dj.calls = 1
            /\ exit_code = NoExit /\ pc # "returned"
            /\ pushCalls = 1
            /\ push_args.result.kind = "ExecutionError"
            /\ push_args.result.type = svc_ctxt.worker_fn.exc.cls)

\* C10: the POST request of push_result carries Content-Type equal to the
\* result's content type (application/json for a Failure), Is-Error "True"
\* exactly for a Failure and "False" exactly for a Success, and an
\* Authorization header, equal to the value supplied, exactly when that
\* value is neither None nor empty.
C10_PushHeaders ==
    (pc = "post" /\ IsCanonical(push_args.result))
        => LET r == push_args.result
               h == request.headers
           IN
           /\ h["Content-Type"] =
                IF r.kind = "ExecutionError" THEN "application/json" ELSE r.content_type
           /\ (h["Is-Error"] = "True") <=> (r.kind = "ExecutionError")
           /\ (h["Is-Error"] = "False") <=> (r.kind = "IvcapResult")
           /\ ("Authorization" \in DOMAIN h) <=> (push_args.authorization \notin {NoneStr, ""})
           /\ ("Authorization" \in DOMAIN h) => (h["Authorization"] = push_args.authorization)

C10_Witness ==
    /\ pc = "post" /\ posts >= 1
    /\ push_args.result.kind = "ExecutionError"
    /\ push_args.authorization = "Bearer tokA"
    /\ request.headers["Is-Error"] = "True"

\* C11: when the fetch response of a job carries an Authorization header,
\* the POST of that job's result carries the same value as its
\* Authorization header.
C11_AuthorizationReachesPush ==
    (pc = "post" /\ entry = "start_batch_service" /\ job_authorization # NoneStr)
        => (/\ "Authorization" \in DOMAIN request.headers
            /\ request.headers["Authorization"] = job_authorization)

\* C15: for a job with id "42", content type application/json and accepted
\* content, and a worker function returning an instance of its output
\* model, the worker is invoked once and the POST goes to /results/42 with
\* Content-Type application/json, Is-Error False and the JSON of the
\* returned model as its body.
C15_EndToEnd ==
    (/\ pc = "post" /\ entry = "start_batch_service"
     /\ IsValidJob(response)
     /\ Get(response.body.d, "id", Absent) = JStr("42")
     /\ svc_ctxt.worker_fn.kind = "returns"
     /\ svc_ctxt.worker_fn.value = BaseModelValue(OUTPUT_MODEL, TRUE))
        => (/\ dj.calls = 1
            /\ request.url = "/results/42"
            /\ request.headers["Content-Type"] = "application/json"
            /\ request.headers["Is-Error"] = "False"
            /\ request.data = Serialised("model_dump_json", svc_ctxt.worker_fn.value))

\* C20: a fetch_job or push_result call that has made n attempts has slept
\* n-1 times when it ends; after 4 failed attempts it has slept 1s, 2s and
\* 4s and does not sleep again.
C20_SleepOnlyBeforeRetry ==
    /\ (pc = "got_job") => (Len(slept) = gets - 1)
    /\ (pc = "exited" /\ exit_code = Exited(EXIT_NO_SIDECAR))
            => (gets = 4 /\ slept = <<1, 2, 4>>)
    /\ (pc \in {"loop_top", "returned"} /\ posts > 0) => (Len(p_slept) = posts - 1)

\* C16: with IVCAP_BASE_URL unset or empty, wait_for_work and push_result
\* return at once: the step that enters either of them ends in "returned"
\* with no exit status, and no GET or POST has ever been issued.
C16_NoBaseUrlNoRequest ==
    [][(base_url \in {NoneStr, ""} /\ pc \in {"wait_for_work", "push_result"})
          => (/\ pc' = "returned"
              /\ exit_code' = NoExit
              /\ gets' = 0 /\ lastGet' = NoGet
              /\ posts' = 0 /\ request' = NoRequest)]_vars

C16_Witness ==
    /\ pc = "returned" /\ entry = "start_batch_service"
    /\ base_url = "" /\ args.test_file = NoTestFile

C16_WitnessPush ==
    /\ pc = "returned" /\ entry = "push_result" /\ base_url \in {NoneStr, ""}
    /\ push_args # NoArgs /\ posts = 0

\* C17: a run with --test-file on a file holding a valid job has, once it
\* is over, called the worker exactly once with that job, and has issued
\* no GET, made no push_result call and no POST.
C17_TestFileRunsJobOnce ==
    (/\ args.test_file.kind = "dict"
     /\ Get(args.test_file.d, "id", Absent) # Absent
     /\ Get(args.test_file.d, "in-content-type", Absent) = JStr("application/json")
     /\ Get(args.test_file.d, "in-content", Absent) = JObj("accepted")
     /\ pc \in {"returned", "crashed"})
        => (/\ dj.calls = 1
            /\ gets = 0 /\ fetched = 0
            /\ pushCalls = 0 /\ posts = 0)

\* The transport half of C17 on its own: with --test-file no GET is issued,
\* push_result is not called and the polling loop is not entered.
TestFileNoTransport ==
    (args.test_file # NoTestFile)
        => (/\ gets = 0 /\ fetched = 0 /\ pushCalls = 0 /\ posts = 0
            /\ pc \in {"start_batch_service", "test_file", "returned", "crashed", "exited"})

\* C18: a worker function with more than one extra parameter, or with one
\* extra parameter that is not a JobContext, makes the process exit with a
\* non-zero status as its first step: no GET is issued and the worker is
\* never called.
C18_BadWorkerRejected ==
    (/\ entry = "start_batch_service"
     /\ \/ Cardinality(DOMAIN worker.extras) > 1
        \/ \E q \in DOMAIN worker.extras : worker.extras[q] # "JobContext")
        => (/\ pc \in {"start_batch_service", "exited"}
            /\ (pc = "exited") => (exit_code # NoExit /\ exit_code[1] # 0)
            /\ gets = 0 /\ fetched = 0
            /\ dj = NotRun /\ svc_ctxt = NoContext)

C18_Witness ==
    /\ pc = "exited" /\ exit_code = Exited(EXIT_BAD_WORKER)
    /\ Cardinality(DOMAIN worker.extras) = 1
    /\ base_url = "http://ivcap.local" /\ args.test_file = NoTestFile

\* C12: the first call of verify_result turns a pydantic model that
\* serialises into a Success with its JSON text and application/json, one
\* that does not into a Failure naming the serialisation exception, a
\* BinaryResult into a Success with its own content and content type, a
\* str into text/plain and bytes into application/octet-stream.
C12_TypedCases ==
    (entry = "verify_result" /\ v_calls = 1) =>
        /\ (v_in.kind = "BaseModel" /\ v_in.dumps)
              => (/\ v_out.kind = "IvcapResult" /\ ~v_out.isError
                  /\ v_out.content = Serialised("model_dump_json", v_in)
                  /\ v_out.content_type = "application/json")
        /\ (v_in.kind = "BaseModel" /\ ~v_in.dumps)
              => (/\ v_out.kind = "ExecutionError"
                  /\ v_out.type = "PydanticSerializationError")
        /\ (v_in.kind = "BinaryResult")
              => (/\ v_out.kind = "IvcapResult" /\ ~v_out.isError
                  /\ v_out.content = v_in.content
                  /\ v_out.content_type = v_in.content_type)
        /\ (v_in.kind = "str")
              => (/\ v_out.kind = "IvcapResult" /\ ~v_out.isError
                  /\ v_out.content = v_in /\ v_out.content_type = "text/plain")
        /\ (v_in.kind = "bytes")
              => (/\ v_out.kind = "IvcapResult" /\ ~v_out.isError
                  /\ v_out.content = v_in
                  /\ v_out.content_type = "application/octet-stream")

C12_Witness ==
    /\ entry = "verify_result" /\ v_calls = 1
    /\ v_in = [kind |-> "str", v |-> "hello"]
    /\ v_out.kind = "IvcapResult" /\ v_out.content_type = "text/plain"

\* C13: for a value of none of the typed cases, the first call of
\* verify_result returns a Success with application/json when json.dumps
\* accepts the value and a Failure when it does not; it never returns None.
C13_FallbackReturnsResult ==
    (/\ entry = "verify_result" /\ v_calls = 1
     /\ v_in.kind \in {"dict", "list", "number", "None", "set", "object", "BufferedReader"})
        => IF v_in.kind \in {"dict", "list", "number", "None"}
           THEN /\ v_out.kind = "IvcapResult" /\ ~v_out.isError
                /\ v_out.content_type = "application/json"
           ELSE v_out.kind = "ExecutionError"

\* C14: verify_result called on a Failure any number of times in a row
\* returns that same Failure, field for field.
C14_FailureIsFixedPoint ==
    (entry = "verify_result" /\ v_in.kind = "ExecutionError") => (v_out = v_in)

C14_Witness ==
    /\ entry = "verify_result" /\ v_calls = MaxApplications
    /\ v_in = ExecutionError("boom", "RuntimeError", TRACEBACK)
    /\ v_out = v_in

\* C19: an emit method returns normally whenever building or sending the
\* event raises an Exception, and then nothing reaches the sink; a worker
\* that has stopped with an exception out of an emit method got one that
\* is not an Exception (KeyboardInterrupt, SystemExit).
C19_EmitNeverRaises ==
    (entry = "worker_fn" /\ reporter.calls > 0) =>
        /\ ((reporter.call.build.raised /\ reporter.call.build.exc.cls \notin BaseOnlyClasses)
             \/ (~reporter.call.build.raised /\ reporter.call.send.raised
                 /\ reporter.call.send.exc.cls \notin BaseOnlyClasses))
              => (~reporter.last.raised /\ reporter.last.sent = NoEvent
                  /\ pc \in {"worker_running", "worker_returned"})
        /\ (pc = "worker_raised")
              => (/\ ~reporter.call.build.raised
                  /\ reporter.call.send.raised
                  /\ reporter.call.send.exc.cls \in BaseOnlyClasses)

C19_Witness ==
    /\ entry = "worker_fn" /\ pc = "worker_returned"
    /\ reporter.calls = MaxEmits /\ reporter.errors = MaxEmits
    /\ reporter.call.send.raised /\ ~reporter.call.build.raised

\* The id the job of the current response carries, or the sentinel.
CurrentJobId ==
    IF response.body.kind = "dict"
    THEN Get(response.body.d, "id", JStr(UNKNOWN_JOB_ID)).v
    ELSE UNKNOWN_JOB_ID

\* C21: every POST of the worker loop goes to /results/<id>, <id> being the
\* id of the job fetched in this iteration, or unknown_job_id when that job
\* has none; never the id of a job of an earlier iteration.
C21_PushUnderCurrentJobId ==
    (entry = "start_batch_service" /\ pc = "post")
        => (/\ push_args.job_id = CurrentJobId
            /\ request.url = "/results/" \o CurrentJobId)

\* The envelope of the current response is malformed: not a JSON object, a
\* $schema that is not a string, or no in-content-type or in-content.
IsMalformed(resp) ==
    /\ resp.status = 200
    /\ \/ resp.body.kind \in {"notjson", "list"}
       \/ /\ resp.body.kind = "dict"
          /\ \/ Get(resp.body.d, "$schema", JStr("")).t # "string"
             \/ /\ Get(resp.body.d, "$schema", JStr("")) \notin DoneSchemas
                /\ \/ Get(resp.body.d, "in-content-type", Absent) = Absent
                   \/ Get(resp.body.d, "in-content", Absent) = Absent

\* C22: when the iteration of a job with a malformed envelope is over, one
\* Failure has been pushed for it, the worker function was not called, and
\* the loop is about to fetch the next job.
C22_MalformedEnvelopeIsFailure ==
    (entry = "start_batch_service" /\ IsMalformed(response) /\ IterationOver)
        => (/\ pushCalls = 1
            /\ push_args.result.kind = "ExecutionError"
            /\ push_args.job_id = CurrentJobId
            /\ dj.calls = 0
            /\ pc = "loop_top")

\* The in-content of the current job is one the input model rejects.
HasRejectedContent(resp) ==
    /\ IsJob(resp)
    /\ Get(resp.body.d, "$schema", JStr("")).t = "string"
    /\ Get(resp.body.d, "$schema", JStr("")) \notin DoneSchemas
    /\ Get(resp.body.d, "in-content-type", Absent) = JStr("application/json")
    /\ Get(resp.body.d, "in-content", Absent) = JObj("rejected")

\* C23: for a job whose content the input model rejects, the worker
\* function is not called and the loop pushes, under the job's id, one
\* Failure whose error is the message of the construction exception, whose
\* type is its class name and whose traceback is not empty.
C23_ConstructionFailureIsPushed ==
    (/\ entry = "start_batch_service" /\ HasRejectedContent(response)
     /\ pc \in {"push_result", "post", "loop_top", "returned", "exited"})
        => (/\ dj.calls = 0
            /\ pushCalls = 1
            /\ push_args.job_id = CurrentJobId
            /\ push_args.result.kind = "ExecutionError"
            /\ push_args.result.error = "1 validation error for Request"
            /\ push_args.result.type = "ValidationError"
            /\ push_args.result.traceback \notin {NoneStr, ""}
            /\ pc # "returned" /\ exit_code = NoExit)

C23_Witness ==
    /\ entry = "start_batch_service" /\ HasRejectedContent(response)
    /\ pc = "post" /\ request.headers["Is-Error"] = "True"
    /\ request.url = "/results/42"

\* C24: for a valid job and a worker function returning a value that is
\* not of the declared output type, do_job returns that very value and the
\* loop hands verify_result's result for it to push_result.
C24_MismatchedTypeIsDelivered ==
    (/\ entry = "start_batch_service" /\ IsValidJob(response)
     /\ svc_ctxt.worker_fn.kind = "returns"
     /\ svc_ctxt.worker_fn.value # BaseModelValue(OUTPUT_MODEL, TRUE)
     /\ pc \in {"push_result", "post", "loop_top", "returned", "exited"})
        => (/\ dj.calls = 1
            /\ ~dj.raised
            /\ dj.value = svc_ctxt.worker_fn.value
            /\ pushCalls = 1
            /\ push_args.result.kind = "IvcapResult")

\* C26: for a valid job the worker function is called once; with a
\* JobContext parameter it gets, under that parameter's name, a context
\* with the job's id and the authorization of the job's fetch response,
\* and without one it gets the request only.
C26_WorkerGetsJobContext ==
    (entry = "start_batch_service" /\ IsValidJob(response) /\ dj.kind = "do_job")
        => (/\ dj.calls = 1
            /\ dj.calledWith.request.kind = "BaseModel"
            /\ IF svc_ctxt.fn_add_job_context = NoneStr
               THEN dj.calledWith.kwargs = <<>>
               ELSE /\ DOMAIN dj.calledWith.kwargs = {svc_ctxt.fn_add_job_context}
                    /\ dj.calledWith.kwargs[svc_ctxt.fn_add_job_context].job_id
                          = CurrentJobId
                    /\ dj.calledWith.kwargs[svc_ctxt.fn_add_job_context].job_authorization
                          = job_authorization)

\* What context_f of set_context returns (service.py:204) names no job
\* other than the one of the current response.
NoStaleJobContext ==
    (entry = "start_batch_service")
        => \/ svc_ctxt.job_context = PyNone
           \/ /\ dj.kind = "do_job"
              /\ svc_ctxt.job_context.job_id = CurrentJobId

\* C27: once do_job has run for a valid job, the context the
\* instrumentation reads is that job's, with its id and authorization;
\* while the next job is fetched, and for a job that fails before its
\* context is set, it is not the context of an earlier job.
C27_ContextIsCurrentJob ==
    /\ NoStaleJobContext
    /\ (entry = "start_batch_service" /\ IsValidJob(response) /\ dj.kind = "do_job")
          => (/\ svc_ctxt.job_context # PyNone
              /\ svc_ctxt.job_context.job_id = CurrentJobId
              /\ svc_ctxt.job_context.job_authorization = job_authorization)

\* C25: the first call of verify_result on a readable binary stream, the
\* object open(path, "rb") returns included, gives a Success whose content
\* is that stream and whose content type is application/octet-stream.
C25_BinaryStreamIsOctetStream ==
    (/\ entry = "verify_result" /\ v_calls = 1
     /\ v_in.kind \in {"BufferedReader", "BinaryIOSubclass"})
        => (/\ v_out.kind = "IvcapResult" /\ ~v_out.isError
            /\ v_out.content = v_in
            /\ v_out.content_type = "application/octet-stream")

\* C30: the argument built for a parameter has required = True exactly
\* when the parameter is not optional, not constant, was given no default
\* or an empty one, and is not of type BOOL.
C30_RequiredExactlyWhen ==
    (entry = "Arguments.build" /\ pc = "built" /\ ~argument.out.raised)
        => (argument.out.value.required
              <=> (/\ ~argument.parameter.optional
                   /\ ~argument.parameter.constant
                   /\ argument.given_default \in {PyNone, [kind |-> "str", v |-> ""]}
                   /\ argument.parameter.type # "BOOL"))

C30_Witness ==
    /\ entry = "Arguments.build" /\ pc = "built" /\ ~argument.out.raised
    /\ argument.parameter.type = "INT"
    /\ argument.given_default = [kind |-> "number", v |-> "0"]
    /\ ~argument.parameter.optional /\ ~argument.parameter.constant
    /\ ~argument.out.value.required

\* C29: inside the cluster wait_for_data_proxy makes at most `retries`
\* probes; it returns on the first probe that gets a response, having
\* slept `delay` once after each failed probe before it; it raises after
\* `retries` failed probes, each followed by a sleep of `delay`.  Outside
\* the cluster it returns without a probe or a sleep.
C29_DataProxyProbes ==
    (entry = "wait_for_data_proxy") =>
        /\ data_proxy.probes <= data_proxy.retries
        /\ \A i \in DOMAIN data_proxy.slept : data_proxy.slept[i] = data_proxy.delay
        /\ ~data_proxy.INSIDE_ARGO
              => (/\ data_proxy.probes = 0 /\ data_proxy.slept = <<>>
                  /\ pc \in {"wait_for_data_proxy", "dp_returned"})
        /\ (data_proxy.INSIDE_ARGO /\ pc = "dp_returned")
              => (/\ ~data_proxy.last.raised
                  /\ data_proxy.last.value.kind = "response"
                  /\ Len(data_proxy.slept) = data_proxy.probes - 1
                  /\ data_proxy.raised = PyNone)
        /\ (pc = "dp_probe") => (Len(data_proxy.slept) = data_proxy.probes)
        /\ (pc = "dp_raised")
              => (/\ data_proxy.probes = data_proxy.retries
                  /\ Len(data_proxy.slept) = data_proxy.retries
                  /\ (data_proxy.retries > 0) => data_proxy.last.raised
                  /\ data_proxy.raised # PyNone)

C29_Witness ==
    /\ entry = "wait_for_data_proxy" /\ pc = "dp_raised"
    /\ data_proxy.retries = 3 /\ data_proxy.slept = <<3, 3, 3>>

\* C28: in a step scope the first event emitted is step_started for the
\* step, before anything the body does; when the body has completed
\* normally exactly one step_finished for the step follows, last, and no
\* run_error; when the body has raised an Exception, run_error is emitted
\* last, no step_finished is emitted and the with statement raises that
\* exception.
C28_StepScopeEvents ==
    (entry = "EventReporter.step" /\ pc # "scope_enter") =>
        /\ step_scope.emitted[1].method = "step_started"
        /\ step_scope.emitted[1].arg = step_scope.step_name
        /\ CountOf(step_scope.emitted, "step_started") = 1
        /\ (pc \in {"scope_body", "scope_exit", "scope_except"})
              => (/\ CountOf(step_scope.emitted, "step_finished") = 0
                  /\ CountOf(step_scope.emitted, "run_error") = 0)
        /\ (pc = "scope_done")
              => (/\ CountOf(step_scope.emitted, "step_finished") = 1
                  /\ step_scope.emitted[Len(step_scope.emitted)].method = "step_finished"
                  /\ step_scope.emitted[Len(step_scope.emitted)].arg = step_scope.step_name
                  /\ CountOf(step_scope.emitted, "run_error") = 0
                  /\ step_scope.raised = PyNone)
        /\ (pc = "scope_raised" /\ step_scope.body.cls \notin BaseOnlyClasses)
              => (/\ CountOf(step_scope.emitted, "run_error") = 1
                  /\ step_scope.emitted[Len(step_scope.emitted)].method = "run_error"
                  /\ CountOf(step_scope.emitted, "step_finished") = 0
                  /\ step_scope.raised = step_scope.body)

C28_Witness ==
    /\ entry = "EventReporter.step" /\ pc = "scope_raised"
    /\ step_scope.body = Exc("RuntimeError", "boom")
    /\ Len(step_scope.emitted) = 3
    /\ step_scope.emitted[2].method = "custom"

====
